---- MODULE Spec2Model ----
(***************************************************************************)
(* AWS-specific validation of kops cluster and instance-group specs        *)
(* (pkg/apis/kops/validation/aws.go).                                      *)
(*                                                                         *)
(* The two entry points, awsValidateCluster and awsValidateInstanceGroup,  *)
(* are state machines over the accumulator allErrs: one action per         *)
(* `allErrs = append(allErrs, rule(...)...)` statement, sequenced by pc.   *)
(* The rule functions are operators computed as the code computes them.    *)
(* Go strings are TLA+ strings (inspected with Len/SubSeq), a Go pointer   *)
(* or nilable interface is a sequence of length 0 (nil) or 1.              *)
(***************************************************************************)
EXTENDS Integers, Sequences, FiniteSets, TLC

VARIABLES fn, pc, c, ig, cloud, allErrs, queries

vars == <<fn, pc, c, ig, cloud, allErrs, queries>>

(***************************************************************************)
(* Pointers                                                                *)
(***************************************************************************)
Nil == <<>>

Some(v) == <<v>>

Deref(p) == p[1]

\* fi.BoolValue / fi.Int64Value / fi.Int32Value: the pointee, or the zero
\* value of the type for a nil pointer.
BoolValue(p) == IF p = Nil THEN FALSE ELSE Deref(p)

Int64Value(p) == IF p = Nil THEN 0 ELSE Deref(p)

Int32Value(p) == IF p = Nil THEN 0 ELSE Deref(p)

(***************************************************************************)
(* field.Path and field.Error                                              *)
(***************************************************************************)
\* field.NewPath(name, moreNames...): a path is its sequence of segments.
NewPath(names) == names

Child(path, name) == Append(path, name)

\* An index segment renders as "[i]"; i is the Go (0-based) index.
Index(path, i) == Append(path, "[" \o ToString(i) \o "]")

\* Bad values are tagged by their Go type.
NoValue == [none |-> TRUE]

StrV(s) == [str |-> s]

IntV(n) == [int |-> n]

SubnetV(s) == [subnet |-> s]

Required(path, detail) ==
    [type |-> "Required value", field |-> path, value |-> NoValue, detail |-> detail]

Invalid(path, value, detail) ==
    [type |-> "Invalid value", field |-> path, value |-> value, detail |-> detail]

Forbidden(path, detail) ==
    [type |-> "Forbidden", field |-> path, value |-> NoValue, detail |-> detail]

NotFound(path, value) ==
    [type |-> "Not found", field |-> path, value |-> value, detail |-> ""]

Duplicate(path, value) ==
    [type |-> "Duplicate value", field |-> path, value |-> value, detail |-> ""]

NotSupported(path, value) ==
    [type |-> "Unsupported value", field |-> path, value |-> value, detail |-> ""]

(***************************************************************************)
(* strings                                                                 *)
(***************************************************************************)
CharAt(s, i) == SubSeq(s, i, i)

\* unicode.IsSpace restricted to the ASCII white space the inputs use.
IsSpace(ch) == ch \in {" ", "\t", "\n", "\r"}

RECURSIVE TrimLeft(_)
TrimLeft(s) ==
    IF Len(s) > 0 /\ IsSpace(CharAt(s, 1)) THEN TrimLeft(SubSeq(s, 2, Len(s))) ELSE s

RECURSIVE TrimRight(_)
TrimRight(s) ==
    IF Len(s) > 0 /\ IsSpace(CharAt(s, Len(s)))
    THEN TrimRight(SubSeq(s, 1, Len(s) - 1))
    ELSE s

\* strings.TrimSpace
TrimSpace(s) == TrimRight(TrimLeft(s))

\* strings.HasPrefix
HasPrefix(s, prefix) ==
    Len(s) >= Len(prefix) /\ SubSeq(s, 1, Len(prefix)) = prefix

\* The index of the first occurrence of the one-character string ch in s at or
\* after position i, or 0 when there is none.
RECURSIVE IndexFrom(_, _, _)
IndexFrom(s, ch, i) ==
    IF i > Len(s) THEN 0
    ELSE IF CharAt(s, i) = ch THEN i
    ELSE IndexFrom(s, ch, i + 1)

\* strings.Split(s, sep) for a one-character sep: n separators give n+1
\* parts, empty parts included.
RECURSIVE Split(_, _)
Split(s, sep) ==
    LET k == IndexFrom(s, sep, 1)
    IN  IF k = 0 THEN <<s>>
        ELSE <<SubSeq(s, 1, k - 1)>> \o Split(SubSeq(s, k + 1, Len(s)), sep)

\* strconv.FormatInt(n, 10)
FormatInt(n) == ToString(n)

(***************************************************************************)
(* IsValidValue (validation helpers): zero or one Unsupported error        *)
(***************************************************************************)
Contains(seq, v) == \E k \in 1..Len(seq) : seq[k] = v

IsValidValue(fldPath, v, validValues) ==
    IF v # Nil /\ ~Contains(validValues, Deref(v))
    THEN <<NotSupported(fldPath, StrV(Deref(v)))>>
    ELSE <<>>

(***************************************************************************)
(* awsValidateAdditionalSecurityGroups                                     *)
(***************************************************************************)
\* The body of the loop over groups, from (1-based) position i on; names is
\* the set of entries seen so far.
RECURSIVE SecurityGroupsLoop(_, _, _, _, _)
SecurityGroupsLoop(fieldPath, groups, i, names, errs) ==
    IF i > Len(groups) THEN errs
    ELSE
        LET s == groups[i]
            e1 == IF s \in names
                  THEN Append(errs, Duplicate(Index(fieldPath, i - 1), StrV(s)))
                  ELSE errs
            e2 == IF TrimSpace(s) = ""
                  THEN Append(e1, Invalid(Index(fieldPath, i - 1), StrV(s),
                           "security group cannot be empty, if specified"))
                  ELSE IF ~HasPrefix(s, "sg-")
                  THEN Append(e1, Invalid(Index(fieldPath, i - 1), StrV(s),
                           "security group does not match the expected AWS format"))
                  ELSE e1
        IN  SecurityGroupsLoop(fieldPath, groups, i + 1, names \cup {s}, e2)

\* Mutant: the blank check does not `continue`, so a blank entry is also
\* checked for the prefix.
RECURSIVE SecurityGroupsLoop_NoContinue(_, _, _, _, _)
SecurityGroupsLoop_NoContinue(fieldPath, groups, i, names, errs) ==
    IF i > Len(groups) THEN errs
    ELSE
        LET s == groups[i]
            e1 == IF s \in names
                  THEN Append(errs, Duplicate(Index(fieldPath, i - 1), StrV(s)))
                  ELSE errs
            e2 == IF TrimSpace(s) = ""
                  THEN Append(e1, Invalid(Index(fieldPath, i - 1), StrV(s),
                           "security group cannot be empty, if specified"))
                  ELSE e1
            e3 == IF ~HasPrefix(s, "sg-")
                  THEN Append(e2, Invalid(Index(fieldPath, i - 1), StrV(s),
                           "security group does not match the expected AWS format"))
                  ELSE e2
        IN  SecurityGroupsLoop_NoContinue(fieldPath, groups, i + 1, names \cup {s}, e3)

awsValidateAdditionalSecurityGroups_NoContinue(fieldPath, groups) ==
    SecurityGroupsLoop_NoContinue(fieldPath, groups, 1, {}, <<>>)

awsValidateAdditionalSecurityGroups(fieldPath, groups) ==
    SecurityGroupsLoop(fieldPath, groups, 1, {}, <<>>)

(***************************************************************************)
(* The capability port (awsup.AWSCloud)                                    *)
(***************************************************************************)
\* A present port is modelled by the set of type names whose lookup
\* succeeds; DescribeInstanceType returns a non-nil error for every other
\* name.
DescribeInstanceTypeFails(port, typ) == typ \notin port

(***************************************************************************)
(* awsValidateInstanceType                                                 *)
(***************************************************************************)
\* The loop over the candidates, from position i on.  The result carries the
\* errors and the lookups made on the port, in order.
\* Mutant: the loop returns at the first failed lookup.
RECURSIVE InstanceTypeLoop_StopsAtFailure(_, _, _, _, _)
InstanceTypeLoop_StopsAtFailure(fieldPath, types, port, i, acc) ==
    IF i > Len(types) THEN acc
    ELSE
        LET typ == types[i]
        IN  IF DescribeInstanceTypeFails(port, typ)
            THEN [errs |-> Append(acc.errs,
                              Invalid(fieldPath, StrV(typ), "machine type specified is invalid")),
                  queries |-> Append(acc.queries, typ)]
            ELSE InstanceTypeLoop_StopsAtFailure(fieldPath, types, port, i + 1,
                     [errs |-> acc.errs, queries |-> Append(acc.queries, typ)])

RECURSIVE InstanceTypeLoop(_, _, _, _, _)
InstanceTypeLoop(fieldPath, types, port, i, acc) ==
    IF i > Len(types) THEN acc
    ELSE
        LET typ == types[i]
            errs == IF DescribeInstanceTypeFails(port, typ)
                    THEN Append(acc.errs,
                             Invalid(fieldPath, StrV(typ), "machine type specified is invalid"))
                    ELSE acc.errs
        IN  InstanceTypeLoop(fieldPath, types, port, i + 1,
                [errs |-> errs, queries |-> Append(acc.queries, typ)])

\* Mutant: no nil test on the port; a missing port resolves nothing.
awsValidateInstanceType_NoNilCheck(fieldPath, instanceType, cl) ==
    IF instanceType # ""
    THEN LET types == Split(instanceType, ",")
             failing == SelectSeq(types,
                            LAMBDA t : DescribeInstanceTypeFails(IF cl = Nil THEN {} ELSE Deref(cl), t))
         IN  [errs |-> [k \in 1..Len(failing) |->
                           Invalid(fieldPath, StrV(failing[k]), "machine type specified is invalid")],
              queries |-> IF cl = Nil THEN <<>> ELSE types]
    ELSE [errs |-> <<>>, queries |-> <<>>]

awsValidateInstanceType(fieldPath, instanceType, cl) ==
    IF instanceType # "" /\ cl # Nil
    THEN InstanceTypeLoop(fieldPath, Split(instanceType, ","), Deref(cl), 1,
             [errs |-> <<>>, queries |-> <<>>])
    ELSE [errs |-> <<>>, queries |-> <<>>]

(***************************************************************************)
(* awsValidateSpotDurationInMinute, awsValidateInstanceInterruptionBehavior*)
(***************************************************************************)
validSpotDurations == <<"60", "120", "180", "240", "300", "360">>

awsValidateSpotDurationInMinute(fieldPath, g) ==
    IF g.Spec.SpotDurationInMinutes # Nil
    THEN IsValidValue(fieldPath,
             Some(FormatInt(Deref(g.Spec.SpotDurationInMinutes))), validSpotDurations)
    ELSE <<>>

\* ec2.InstanceInterruptionBehavior_Values()
InstanceInterruptionBehavior_Values == <<"hibernate", "stop", "terminate">>

awsValidateInstanceInterruptionBehavior(fieldPath, g) ==
    IF g.Spec.InstanceInterruptionBehavior # Nil
    THEN IsValidValue(fieldPath, g.Spec.InstanceInterruptionBehavior,
             InstanceInterruptionBehavior_Values)
    ELSE <<>>

(***************************************************************************)
(* awsValidateMixedInstancesPolicy                                         *)
(***************************************************************************)
\* kops.SpotAllocationStrategies
SpotAllocationStrategies == <<"lowest-price", "capacity-optimized">>

\* "@step: check the instance types are valid": one awsValidateInstanceType
\* per listed instance, at instances[i].
RECURSIVE MixedInstancesLoop(_, _, _, _, _)
MixedInstancesLoop(path, instances, cl, i, acc) ==
    IF i > Len(instances) THEN acc
    ELSE
        LET r == awsValidateInstanceType(Index(Child(path, "instances"), i - 1),
                     instances[i], cl)
        IN  MixedInstancesLoop(path, instances, cl, i + 1,
                [errs |-> acc.errs \o r.errs, queries |-> acc.queries \o r.queries])

\* Mutant: the upper bound of onDemandBase excludes the maximum size itself.
awsValidateMixedInstancesPolicy_Exclusive(path, spec, g, cl) ==
    LET r0 == MixedInstancesLoop(path, spec.Instances, cl, 1,
                  [errs |-> <<>>, queries |-> <<>>])
        e1 == IF spec.OnDemandBase # Nil /\ Int64Value(spec.OnDemandBase) < 0
              THEN Append(r0.errs, Invalid(Child(path, "onDemandBase"),
                       IntV(Deref(spec.OnDemandBase)), "cannot be less than zero"))
              ELSE r0.errs
        e2 == IF spec.OnDemandBase # Nil
                 /\ Int64Value(spec.OnDemandBase) >= Int32Value(g.Spec.MaxSize)
              THEN Append(e1, Invalid(Child(path, "onDemandBase"),
                       IntV(Deref(spec.OnDemandBase)), "cannot be greater than max size"))
              ELSE e1
        e3 == IF spec.OnDemandAboveBase # Nil /\ Int64Value(spec.OnDemandAboveBase) < 0
              THEN Append(e2, Invalid(Child(path, "onDemandAboveBase"),
                       IntV(Deref(spec.OnDemandAboveBase)), "cannot be less than 0"))
              ELSE e2
        e4 == IF spec.OnDemandAboveBase # Nil /\ Int64Value(spec.OnDemandAboveBase) > 100
              THEN Append(e3, Invalid(Child(path, "onDemandAboveBase"),
                       IntV(Deref(spec.OnDemandAboveBase)), "cannot be greater than 100"))
              ELSE e3
    IN  [errs |-> e4 \o IsValidValue(Child(path, "spotAllocationStrategy"),
                        spec.SpotAllocationStrategy, SpotAllocationStrategies),
         queries |-> r0.queries]

awsValidateMixedInstancesPolicy(path, spec, g, cl) ==
    LET r0 == MixedInstancesLoop(path, spec.Instances, cl, 1,
                  [errs |-> <<>>, queries |-> <<>>])
        e1 == IF spec.OnDemandBase # Nil /\ Int64Value(spec.OnDemandBase) < 0
              THEN Append(r0.errs, Invalid(Child(path, "onDemandBase"),
                       IntV(Deref(spec.OnDemandBase)), "cannot be less than zero"))
              ELSE r0.errs
        e2 == IF spec.OnDemandBase # Nil
                 /\ Int64Value(spec.OnDemandBase) > Int32Value(g.Spec.MaxSize)
              THEN Append(e1, Invalid(Child(path, "onDemandBase"),
                       IntV(Deref(spec.OnDemandBase)), "cannot be greater than max size"))
              ELSE e1
        e3 == IF spec.OnDemandAboveBase # Nil /\ Int64Value(spec.OnDemandAboveBase) < 0
              THEN Append(e2, Invalid(Child(path, "onDemandAboveBase"),
                       IntV(Deref(spec.OnDemandAboveBase)), "cannot be less than 0"))
              ELSE e2
        e4 == IF spec.OnDemandAboveBase # Nil /\ Int64Value(spec.OnDemandAboveBase) > 100
              THEN Append(e3, Invalid(Child(path, "onDemandAboveBase"),
                       IntV(Deref(spec.OnDemandAboveBase)), "cannot be greater than 100"))
              ELSE e3
    IN  [errs |-> e4 \o IsValidValue(Child(path, "spotAllocationStrategy"),
                        spec.SpotAllocationStrategy, SpotAllocationStrategies),
         queries |-> r0.queries]

(***************************************************************************)
(* awsValidateInstanceMetadata                                             *)
(***************************************************************************)
\* Mutant: the lower bound of the hop limit is off by one.
awsValidateInstanceMetadata_OffByOne(fieldPath, instanceMetadata) ==
    LET e1 == IF instanceMetadata.HTTPTokens # Nil
              THEN IsValidValue(Child(fieldPath, "httpTokens"),
                       instanceMetadata.HTTPTokens, <<"optional", "required">>)
              ELSE <<>>
        httpPutResponseHopLimit == Int64Value(instanceMetadata.HTTPPutResponseHopLimit)
    IN  IF instanceMetadata.HTTPPutResponseHopLimit # Nil
           /\ (httpPutResponseHopLimit < 0 \/ httpPutResponseHopLimit > 64)
        THEN Append(e1, Invalid(Child(fieldPath, "httpPutResponseHopLimit"),
                 IntV(httpPutResponseHopLimit),
                 "HTTPPutResponseLimit must be a value between 1 and 64"))
        ELSE e1

awsValidateInstanceMetadata(fieldPath, instanceMetadata) ==
    LET e1 == IF instanceMetadata.HTTPTokens # Nil
              THEN IsValidValue(Child(fieldPath, "httpTokens"),
                       instanceMetadata.HTTPTokens, <<"optional", "required">>)
              ELSE <<>>
        httpPutResponseHopLimit == Int64Value(instanceMetadata.HTTPPutResponseHopLimit)
    IN  IF instanceMetadata.HTTPPutResponseHopLimit # Nil
           /\ (httpPutResponseHopLimit < 1 \/ httpPutResponseHopLimit > 64)
        THEN Append(e1, Invalid(Child(fieldPath, "httpPutResponseHopLimit"),
                 IntV(httpPutResponseHopLimit),
                 "HTTPPutResponseLimit must be a value between 1 and 64"))
        ELSE e1

(***************************************************************************)
(* package net, as far as the validator uses it: ParseIP, IP.To4,          *)
(* ParseCIDR and IPNet.Contains.  An IP is its sequence of bytes (16 as    *)
(* ParseIP returns it, 4 after To4); nil is the empty sequence.  Inputs    *)
(* carry no octet with a leading zero, on which Go releases differ.        *)
(***************************************************************************)
big == 16777215

IPv4len == 4

IPv6len == 16

v4InV6Prefix == <<0, 0, 0, 0, 0, 0, 0, 0, 0, 0, 255, 255>>

DigitValue(ch) == IndexFrom("0123456789", ch, 1) - 1

HexValue(ch) ==
    IF IndexFrom("0123456789abcdef", ch, 1) > 0
    THEN IndexFrom("0123456789abcdef", ch, 1) - 1
    ELSE IF IndexFrom("ABCDEF", ch, 1) > 0
    THEN IndexFrom("ABCDEF", ch, 1) + 9
    ELSE -1

\* dtoi: the decimal number at the start of s, the count of its digits, ok.
RECURSIVE DtoiLoop(_, _, _)
DtoiLoop(s, i, n) ==
    IF i < Len(s) /\ DigitValue(CharAt(s, i + 1)) >= 0
    THEN LET m == n * 10 + DigitValue(CharAt(s, i + 1))
         IN  IF m >= big THEN [n |-> big, i |-> i, ok |-> FALSE]
             ELSE DtoiLoop(s, i + 1, m)
    ELSE IF i = 0 THEN [n |-> 0, i |-> 0, ok |-> FALSE]
    ELSE [n |-> n, i |-> i, ok |-> TRUE]

dtoi(s) == DtoiLoop(s, 0, 0)

\* xtoi: the same for a hexadecimal number.
RECURSIVE XtoiLoop(_, _, _)
XtoiLoop(s, i, n) ==
    IF i < Len(s) /\ HexValue(CharAt(s, i + 1)) >= 0
    THEN LET m == n * 16 + HexValue(CharAt(s, i + 1))
         IN  IF m >= big THEN [n |-> 0, i |-> i, ok |-> FALSE]
             ELSE XtoiLoop(s, i + 1, m)
    ELSE IF i = 0 THEN [n |-> 0, i |-> i, ok |-> FALSE]
    ELSE [n |-> n, i |-> i, ok |-> TRUE]

xtoi(s) == XtoiLoop(s, 0, 0)

\* parseIPv4: four decimal octets separated by dots, nothing after them.
RECURSIVE ParseIPv4Loop(_, _, _)
ParseIPv4Loop(s, i, p) ==
    IF i = IPv4len THEN (IF Len(s) # 0 THEN Nil ELSE v4InV6Prefix \o p)
    ELSE IF Len(s) = 0 THEN Nil
    ELSE IF i > 0 /\ CharAt(s, 1) # "." THEN Nil
    ELSE
        LET t == IF i > 0 THEN SubSeq(s, 2, Len(s)) ELSE s
            d == dtoi(t)
        IN  IF ~d.ok \/ d.n > 255 THEN Nil
            ELSE ParseIPv4Loop(SubSeq(t, d.i + 1, Len(t)), i + 1, Append(p, d.n))

parseIPv4(s) == ParseIPv4Loop(s, 0, <<>>)

Zeros(n) == [k \in 1..n |-> 0]

\* The loop of parseIPv6 over 16-bit groups; ip holds the bytes parsed so
\* far, ellipsis the byte position of "::" or -1.  Returns nil, or the state
\* at the loop's exit.
RECURSIVE ParseIPv6Loop(_, _, _)
ParseIPv6Loop(s, ip, ellipsis) ==
    IF Len(ip) >= IPv6len THEN [s |-> s, ip |-> ip, ellipsis |-> ellipsis]
    ELSE
        LET x == xtoi(s)
        IN  IF ~x.ok \/ x.n > 65535 THEN Nil
            ELSE IF x.i < Len(s) /\ CharAt(s, x.i + 1) = "."
            THEN IF ellipsis < 0 /\ Len(ip) # IPv6len - IPv4len THEN Nil
                 ELSE IF Len(ip) + IPv4len > IPv6len THEN Nil
                 ELSE LET ip4 == parseIPv4(s)
                      IN  IF ip4 = Nil THEN Nil
                          ELSE [s |-> "", ip |-> ip \o SubSeq(ip4, 13, 16),
                                ellipsis |-> ellipsis]
            ELSE
                LET ip2 == ip \o <<x.n \div 256, x.n % 256>>
                    s2 == SubSeq(s, x.i + 1, Len(s))
                IN  IF Len(s2) = 0 THEN [s |-> s2, ip |-> ip2, ellipsis |-> ellipsis]
                    ELSE IF CharAt(s2, 1) # ":" \/ Len(s2) = 1 THEN Nil
                    ELSE
                        LET s3 == SubSeq(s2, 2, Len(s2))
                        IN  IF CharAt(s3, 1) = ":"
                            THEN IF ellipsis >= 0 THEN Nil
                                 ELSE IF Len(s3) = 1
                                 THEN [s |-> "", ip |-> ip2, ellipsis |-> Len(ip2)]
                                 ELSE ParseIPv6Loop(SubSeq(s3, 2, Len(s3)), ip2, Len(ip2))
                            ELSE ParseIPv6Loop(s3, ip2, ellipsis)

parseIPv6(s) ==
    LET lead == Len(s) >= 2 /\ SubSeq(s, 1, 2) = "::"
        s1 == IF lead THEN SubSeq(s, 3, Len(s)) ELSE s
    IN  IF lead /\ Len(s1) = 0 THEN Zeros(IPv6len)
        ELSE
            LET r == ParseIPv6Loop(s1, <<>>, IF lead THEN 0 ELSE -1)
            IN  IF r = Nil THEN Nil
                ELSE IF Len(r.s) # 0 THEN Nil
                ELSE IF Len(r.ip) < IPv6len
                THEN IF r.ellipsis < 0 THEN Nil
                     ELSE SubSeq(r.ip, 1, r.ellipsis) \o Zeros(IPv6len - Len(r.ip))
                              \o SubSeq(r.ip, r.ellipsis + 1, Len(r.ip))
                ELSE IF r.ellipsis >= 0 THEN Nil
                ELSE r.ip

\* The first '.' or ':' of s decides the parser.
RECURSIVE ParseIPFrom(_, _)
ParseIPFrom(s, i) ==
    IF i > Len(s) THEN Nil
    ELSE IF CharAt(s, i) = "." THEN parseIPv4(s)
    ELSE IF CharAt(s, i) = ":" THEN parseIPv6(s)
    ELSE ParseIPFrom(s, i + 1)

ParseIP(s) == ParseIPFrom(s, 1)

To4(ip) ==
    IF Len(ip) = IPv4len THEN ip
    ELSE IF Len(ip) = IPv6len /\ SubSeq(ip, 1, 12) = v4InV6Prefix THEN SubSeq(ip, 13, 16)
    ELSE Nil

RECURSIVE Pow2(_)
Pow2(n) == IF n = 0 THEN 1 ELSE 2 * Pow2(n - 1)

\* CIDRMask(ones, bits), as its bytes.
CIDRMask(ones, bits) ==
    [k \in 1..(bits \div 8) |->
        LET left == ones - 8 * (k - 1)
        IN  IF left >= 8 THEN 255 ELSE IF left <= 0 THEN 0 ELSE 256 - Pow2(8 - left)]

\* x & m for a byte m of a prefix mask (m = 256 - 2^j).
AndMask(x, m) == x - (x % (256 - m))

\* IP.Mask
Mask(ip, mask) ==
    LET ip1 == IF Len(mask) = IPv4len /\ Len(ip) = IPv6len
                  /\ SubSeq(ip, 1, 12) = v4InV6Prefix
               THEN SubSeq(ip, 13, 16) ELSE ip
        mask1 == IF Len(mask) = IPv6len /\ Len(ip) = IPv4len
                    /\ SubSeq(mask, 1, 12) = [k \in 1..12 |-> 255]
                 THEN SubSeq(mask, 13, 16) ELSE mask
    IN  IF Len(ip1) # Len(mask1) THEN Nil
        ELSE [k \in 1..Len(ip1) |-> AndMask(ip1[k], mask1[k])]

\* ParseCIDR: nil on error, else the network (IP masked, Mask).
ParseCIDR(s) ==
    LET i == IndexFrom(s, "/", 1)
    IN  IF i = 0 THEN Nil
        ELSE
            LET addr == SubSeq(s, 1, i - 1)
                mask == SubSeq(s, i + 1, Len(s))
                ip4 == parseIPv4(addr)
                iplen == IF ip4 = Nil THEN IPv6len ELSE IPv4len
                ip == IF ip4 = Nil THEN parseIPv6(addr) ELSE ip4
                d == dtoi(mask)
            IN  IF ip = Nil \/ ~d.ok \/ d.i # Len(mask) \/ d.n < 0 \/ d.n > 8 * iplen
                THEN Nil
                ELSE LET m == CIDRMask(d.n, 8 * iplen)
                     IN  Some([IP |-> Mask(ip, m), Mask |-> m])

\* IPNet.Contains
NetContains(ipNet, ip) ==
    LET nn == IF To4(ipNet.IP) # Nil THEN To4(ipNet.IP) ELSE ipNet.IP
        m == IF Len(ipNet.Mask) = IPv6len /\ Len(nn) = IPv4len
             THEN SubSeq(ipNet.Mask, 13, 16) ELSE ipNet.Mask
        x == IF To4(ip) # Nil THEN To4(ip) ELSE ip
    IN  /\ Len(nn) = Len(m)
        /\ Len(x) = Len(nn)
        /\ \A k \in 1..Len(x) : AndMask(nn[k], m[k]) = AndMask(x[k], m[k])

(***************************************************************************)
(* kops API constants                                                      *)
(***************************************************************************)
LoadBalancerClassClassic == "Classic"

LoadBalancerClassNetwork == "Network"

LoadBalancerTypePublic == "Public"

LoadBalancerTypeInternal == "Internal"

(***************************************************************************)
(* awsValidateSSLPolicy                                                    *)
(***************************************************************************)
awsValidateSSLPolicy(fieldPath, spec) ==
    IF spec.SSLPolicy # Nil
    THEN (IF spec.Class # LoadBalancerClassNetwork
          THEN <<Forbidden(fieldPath, "sslPolicy should be specified with Network Load Balancer")>>
          ELSE <<>>)
         \o
         (IF spec.SSLCertificate = ""
          THEN <<Forbidden(fieldPath, "sslPolicy should not be specified without SSLCertificate")>>
          ELSE <<>>)
    ELSE <<>>

(***************************************************************************)
(* awsValidateLoadBalancerSubnets                                          *)
(***************************************************************************)
\* Mutant: the inner loop has no `break` and keeps the last match.
RECURSIVE FindClusterSubnet_LastMatch(_, _, _)
FindClusterSubnet_LastMatch(subnets, name, k) ==
    IF k > Len(subnets) THEN Nil
    ELSE LET later == FindClusterSubnet_LastMatch(subnets, name, k + 1)
         IN  IF later # Nil THEN later
             ELSE IF name = subnets[k].Name THEN Some(subnets[k])
             ELSE Nil

\* The inner loop: a pointer to the first cluster subnet named name, or nil.
RECURSIVE FindClusterSubnet(_, _, _)
FindClusterSubnet(subnets, name, k) ==
    IF k > Len(subnets) THEN Nil
    ELSE IF name = subnets[k].Name THEN Some(subnets[k])
    ELSE FindClusterSubnet(subnets, name, k + 1)

\* The name check of one binding: the resolved cluster subnet and the errors.
SubnetNameCheck(fieldPath, spec, i, subnet) ==
    IF subnet.Name = ""
    THEN [clusterSubnet |-> Nil,
          errs |-> <<Required(Child(Index(fieldPath, i), "name"), "subnet name can't be empty")>>]
    ELSE LET cs == FindClusterSubnet(spec.Subnets, subnet.Name, 1)
         IN  [clusterSubnet |-> cs,
              errs |-> IF cs = Nil
                       THEN <<NotFound(Child(Index(fieldPath, i), "name"), StrV(subnet.Name))>>
                       ELSE <<>>]

\* Mutant: the Forbidden test of the privateIPv4Address block joins its two
\* conditions with && instead of ||.
SubnetPrivateIPCheck_And(fieldPath, lbSpec, i, subnet, clusterSubnet) ==
    IF subnet.PrivateIPv4Address = Nil THEN <<>>
    ELSE
        LET path == Child(Index(fieldPath, i), "privateIPv4Address")
            addr == Deref(subnet.PrivateIPv4Address)
            ip == ParseIP(addr)
            ipNet == IF clusterSubnet = Nil THEN Nil ELSE ParseCIDR(Deref(clusterSubnet).CIDR)
        IN  (IF addr = ""
             THEN <<Required(path, "privateIPv4Address can't be empty")>>
             ELSE <<>>)
            \o
            (IF ip = Nil \/ To4(ip) = Nil
             THEN <<Invalid(path, SubnetV(subnet), "privateIPv4Address is not a valid IPv4 address")>>
             ELSE IF clusterSubnet # Nil /\ ipNet # Nil /\ ~NetContains(Deref(ipNet), ip)
             THEN <<Invalid(path, SubnetV(subnet), "privateIPv4Address is not part of the subnet CIDR")>>
             ELSE <<>>)
            \o
            (IF lbSpec.Class # LoadBalancerClassNetwork /\ lbSpec.Type # LoadBalancerTypeInternal
             THEN <<Forbidden(path, "privateIPv4Address only allowed for internal NLBs")>>
             ELSE <<>>)

\* The privateIPv4Address block of one binding.
SubnetPrivateIPCheck(fieldPath, lbSpec, i, subnet, clusterSubnet) ==
    IF subnet.PrivateIPv4Address = Nil THEN <<>>
    ELSE
        LET path == Child(Index(fieldPath, i), "privateIPv4Address")
            addr == Deref(subnet.PrivateIPv4Address)
            ip == ParseIP(addr)
            ipNet == IF clusterSubnet = Nil THEN Nil ELSE ParseCIDR(Deref(clusterSubnet).CIDR)
        IN  (IF addr = ""
             THEN <<Required(path, "privateIPv4Address can't be empty")>>
             ELSE <<>>)
            \o
            (IF ip = Nil \/ To4(ip) = Nil
             THEN <<Invalid(path, SubnetV(subnet), "privateIPv4Address is not a valid IPv4 address")>>
             ELSE IF clusterSubnet # Nil /\ ipNet # Nil /\ ~NetContains(Deref(ipNet), ip)
             THEN <<Invalid(path, SubnetV(subnet), "privateIPv4Address is not part of the subnet CIDR")>>
             ELSE <<>>)
            \o
            (IF lbSpec.Class # LoadBalancerClassNetwork \/ lbSpec.Type # LoadBalancerTypeInternal
             THEN <<Forbidden(path, "privateIPv4Address only allowed for internal NLBs")>>
             ELSE <<>>)

\* Mutant: the allocationID block tests the type as the privateIPv4Address
\* block does.
SubnetAllocationIDCheck_AsPrivate(fieldPath, lbSpec, i, subnet) ==
    IF subnet.AllocationID = Nil THEN <<>>
    ELSE
        LET path == Child(Index(fieldPath, i), "allocationID")
        IN  (IF Deref(subnet.AllocationID) = ""
             THEN <<Required(path, "allocationID can't be empty")>>
             ELSE <<>>)
            \o
            (IF lbSpec.Class # LoadBalancerClassNetwork \/ lbSpec.Type # LoadBalancerTypeInternal
             THEN <<Forbidden(path, "allocationID only allowed for Public NLBs")>>
             ELSE <<>>)

\* The allocationID block of one binding.
SubnetAllocationIDCheck(fieldPath, lbSpec, i, subnet) ==
    IF subnet.AllocationID = Nil THEN <<>>
    ELSE
        LET path == Child(Index(fieldPath, i), "allocationID")
        IN  (IF Deref(subnet.AllocationID) = ""
             THEN <<Required(path, "allocationID can't be empty")>>
             ELSE <<>>)
            \o
            (IF lbSpec.Class # LoadBalancerClassNetwork \/ lbSpec.Type = LoadBalancerTypeInternal
             THEN <<Forbidden(path, "allocationID only allowed for Public NLBs")>>
             ELSE <<>>)

\* Mutant: a binding whose name check fails is not checked further.
RECURSIVE LoadBalancerSubnetsLoop_ContinueOnNameError(_, _, _, _)
LoadBalancerSubnetsLoop_ContinueOnNameError(fieldPath, spec, k, errs) ==
    LET lbSpec == Deref(Deref(spec.API).LoadBalancer)
    IN  IF k > Len(lbSpec.Subnets) THEN errs
        ELSE
            LET subnet == lbSpec.Subnets[k]
                nm == SubnetNameCheck(fieldPath, spec, k - 1, subnet)
            IN  IF nm.errs # <<>>
                THEN LoadBalancerSubnetsLoop_ContinueOnNameError(fieldPath, spec, k + 1,
                         errs \o nm.errs)
                ELSE LoadBalancerSubnetsLoop_ContinueOnNameError(fieldPath, spec, k + 1,
                    errs \o SubnetPrivateIPCheck(fieldPath, lbSpec, k - 1, subnet, nm.clusterSubnet)
                         \o SubnetAllocationIDCheck(fieldPath, lbSpec, k - 1, subnet))

\* The loop over lbSpec.Subnets, from (1-based) position k on.
RECURSIVE LoadBalancerSubnetsLoop(_, _, _, _)
LoadBalancerSubnetsLoop(fieldPath, spec, k, errs) ==
    LET lbSpec == Deref(Deref(spec.API).LoadBalancer)
    IN  IF k > Len(lbSpec.Subnets) THEN errs
        ELSE
            LET subnet == lbSpec.Subnets[k]
                nm == SubnetNameCheck(fieldPath, spec, k - 1, subnet)
            IN  LoadBalancerSubnetsLoop(fieldPath, spec, k + 1,
                    errs \o nm.errs
                         \o SubnetPrivateIPCheck(fieldPath, lbSpec, k - 1, subnet, nm.clusterSubnet)
                         \o SubnetAllocationIDCheck(fieldPath, lbSpec, k - 1, subnet))

awsValidateLoadBalancerSubnets(fieldPath, spec) ==
    LoadBalancerSubnetsLoop(fieldPath, spec, 1, <<>>)

(***************************************************************************)
(* awsValidateExternalCloudControllerManager                               *)
(***************************************************************************)
awsValidateExternalCloudControllerManager(spec) ==
    IF /\ spec.ExternalCloudControllerManager # Nil
       /\ \/ spec.KubeControllerManager = Nil
          \/ Deref(spec.KubeControllerManager).ExternalCloudVolumePlugin # "aws"
       /\ \/ spec.CloudConfig = Nil
          \/ Deref(spec.CloudConfig).AWSEBSCSIDriver = Nil
          \/ ~BoolValue(Deref(Deref(spec.CloudConfig).AWSEBSCSIDriver).Enabled)
    THEN <<Forbidden(NewPath(<<"spec", "externalCloudControllerManager">>),
             "AWS external CCM cannot be used without enabling spec.cloudConfig.AWSEBSCSIDriver or setting spec.kubeControllerManaager.externalCloudVolumePlugin set to aws")>>
    ELSE <<>>

(***************************************************************************)
(* awsValidateCluster: one action per statement                            *)
(***************************************************************************)
HasLoadBalancer(cl) == cl.Spec.API # Nil /\ Deref(cl.Spec.API).LoadBalancer # Nil

LoadBalancerOf(cl) == Deref(Deref(cl.Spec.API).LoadBalancer)

\* Mutant: without a load balancer the function returns at once.
ClusterEnter_ReturnsEarly ==
    /\ fn = "awsValidateCluster" /\ pc = "enter"
    /\ pc' = IF HasLoadBalancer(c) THEN "lbSecurityGroups" ELSE "return"
    /\ UNCHANGED <<fn, c, ig, cloud, allErrs, queries>>

\* allErrs := field.ErrorList{}; the two nil tests on c.Spec.API
ClusterEnter ==
    /\ fn = "awsValidateCluster" /\ pc = "enter"
    /\ pc' = IF HasLoadBalancer(c) THEN "lbSecurityGroups" ELSE "externalCCM"
    /\ UNCHANGED <<fn, c, ig, cloud, allErrs, queries>>

ClusterSecurityGroups ==
    /\ fn = "awsValidateCluster" /\ pc = "lbSecurityGroups"
    /\ allErrs' = allErrs \o awsValidateAdditionalSecurityGroups(
                      NewPath(<<"spec", "api", "loadBalancer", "additionalSecurityGroups">>),
                      LoadBalancerOf(c).AdditionalSecurityGroups)
    /\ pc' = "sslPolicy"
    /\ UNCHANGED <<fn, c, ig, cloud, queries>>

ClusterSSLPolicy ==
    /\ fn = "awsValidateCluster" /\ pc = "sslPolicy"
    /\ allErrs' = allErrs \o awsValidateSSLPolicy(
                      NewPath(<<"spec", "api", "loadBalancer", "sslPolicy">>), LoadBalancerOf(c))
    /\ pc' = "lbSubnets"
    /\ UNCHANGED <<fn, c, ig, cloud, queries>>

ClusterLoadBalancerSubnets ==
    /\ fn = "awsValidateCluster" /\ pc = "lbSubnets"
    /\ allErrs' = allErrs \o awsValidateLoadBalancerSubnets(
                      NewPath(<<"spec", "api", "loadBalancer", "subnets">>), c.Spec)
    /\ pc' = "externalCCM"
    /\ UNCHANGED <<fn, c, ig, cloud, queries>>

ClusterExternalCCM ==
    /\ fn = "awsValidateCluster" /\ pc = "externalCCM"
    /\ allErrs' = allErrs \o awsValidateExternalCloudControllerManager(c.Spec)
    /\ pc' = "return"
    /\ UNCHANGED <<fn, c, ig, cloud, queries>>

(***************************************************************************)
(* awsValidateInstanceGroup: one action per statement                      *)
(***************************************************************************)
\* ig.GetName()
GetName(g) == g.Name

IGSecurityGroups ==
    /\ fn = "awsValidateInstanceGroup" /\ pc = "enter"
    /\ allErrs' = allErrs \o awsValidateAdditionalSecurityGroups(
                      NewPath(<<"spec", "additionalSecurityGroups">>),
                      ig.Spec.AdditionalSecurityGroups)
    /\ pc' = "machineType"
    /\ UNCHANGED <<fn, c, ig, cloud, queries>>

IGMachineType ==
    /\ fn = "awsValidateInstanceGroup" /\ pc = "machineType"
    /\ LET r == awsValidateInstanceType(NewPath(<<GetName(ig), "spec", "machineType">>),
                    ig.Spec.MachineType, cloud)
       IN  /\ allErrs' = allErrs \o r.errs
           /\ queries' = queries \o r.queries
    /\ pc' = "spotDuration"
    /\ UNCHANGED <<fn, c, ig, cloud>>

IGSpotDuration ==
    /\ fn = "awsValidateInstanceGroup" /\ pc = "spotDuration"
    /\ allErrs' = allErrs \o awsValidateSpotDurationInMinute(
                      NewPath(<<GetName(ig), "spec", "spotDurationInMinutes">>), ig)
    /\ pc' = "interruptionBehavior"
    /\ UNCHANGED <<fn, c, ig, cloud, queries>>

IGInterruptionBehavior ==
    /\ fn = "awsValidateInstanceGroup" /\ pc = "interruptionBehavior"
    /\ allErrs' = allErrs \o awsValidateInstanceInterruptionBehavior(
                      NewPath(<<GetName(ig), "spec", "instanceInterruptionBehavior">>), ig)
    /\ pc' = "mixedInstancesPolicy"
    /\ UNCHANGED <<fn, c, ig, cloud, queries>>

IGMixedInstancesPolicy ==
    /\ fn = "awsValidateInstanceGroup" /\ pc = "mixedInstancesPolicy"
    /\ IF ig.Spec.MixedInstancesPolicy # Nil
       THEN LET r == awsValidateMixedInstancesPolicy(
                         NewPath(<<"spec", "mixedInstancesPolicy">>),
                         Deref(ig.Spec.MixedInstancesPolicy), ig, cloud)
            IN  /\ allErrs' = allErrs \o r.errs
                /\ queries' = queries \o r.queries
       ELSE UNCHANGED <<allErrs, queries>>
    /\ pc' = "instanceMetadata"
    /\ UNCHANGED <<fn, c, ig, cloud>>

\* Mutant: the metadata rule runs only when nothing was found before it.
IGInstanceMetadata_OnlyIfClean ==
    /\ fn = "awsValidateInstanceGroup" /\ pc = "instanceMetadata"
    /\ IF ig.Spec.InstanceMetadata # Nil /\ allErrs = <<>>
       THEN allErrs' = allErrs \o awsValidateInstanceMetadata(
                           NewPath(<<"spec", "instanceMetadata">>),
                           Deref(ig.Spec.InstanceMetadata))
       ELSE UNCHANGED allErrs
    /\ pc' = "return"
    /\ UNCHANGED <<fn, c, ig, cloud, queries>>

IGInstanceMetadata ==
    /\ fn = "awsValidateInstanceGroup" /\ pc = "instanceMetadata"
    /\ IF ig.Spec.InstanceMetadata # Nil
       THEN allErrs' = allErrs \o awsValidateInstanceMetadata(
                           NewPath(<<"spec", "instanceMetadata">>),
                           Deref(ig.Spec.InstanceMetadata))
       ELSE UNCHANGED allErrs
    /\ pc' = "return"
    /\ UNCHANGED <<fn, c, ig, cloud, queries>>

(***************************************************************************)
(* Inputs                                                                  *)
(***************************************************************************)
MaxGroups == 3

MaxBindings == 2

MaxCandidates == 2

MaxHopLimit == 66

SeqsUpTo(S, n) == UNION {[1..k -> S] : k \in 0..n}

RECURSIVE Join(_, _)
Join(parts, sep) ==
    IF Len(parts) = 0 THEN ""
    ELSE IF Len(parts) = 1 THEN parts[1]
    ELSE parts[1] \o sep \o Join(Tail(parts), sep)

\* Security-group entries: blank, white space only, well formed, white space
\* before a well-formed id, wrong prefix, a proper prefix of "sg-".
GroupStrings == {"", " ", "sg-1", "sg-2", " sg-1", "--invalid", "sg"}

GroupLists == SeqsUpTo(GroupStrings, MaxGroups)

\* ---- clusters ----
LoadBalancer(class, type, groups, sslPolicy, sslCertificate, subnets) ==
    [Class |-> class, Type |-> type, AdditionalSecurityGroups |-> groups,
     SSLPolicy |-> sslPolicy, SSLCertificate |-> sslCertificate, Subnets |-> subnets]

Cluster(api, subnets, ccm, kcm, cloudConfig) ==
    [Spec |-> [API |-> api, Subnets |-> subnets,
               ExternalCloudControllerManager |-> ccm,
               KubeControllerManager |-> kcm,
               CloudConfig |-> cloudConfig]]

ClusterSubnet(name, cidr) == [Name |-> name, CIDR |-> cidr]

\* The tests' cluster subnets, then: none; a name declared twice with
\* different CIDRs; CIDRs that do not parse or are not IPv4.
ClusterSubnetLists ==
    { <<ClusterSubnet("a", "10.0.0.0/24"), ClusterSubnet("b", "10.0.0.0/24"),
        ClusterSubnet("c", "10.0.0.0/24")>>,
      <<>>,
      <<ClusterSubnet("a", "10.0.1.0/24"), ClusterSubnet("a", "10.0.0.0/24"),
        ClusterSubnet("b", "11.0.0.0/8")>>,
      <<ClusterSubnet("a", "invalidcidr"), ClusterSubnet("b", "::/0")>> }

Classes == {LoadBalancerClassClassic, LoadBalancerClassNetwork, ""}

Types == {LoadBalancerTypePublic, LoadBalancerTypeInternal, ""}

Addresses ==
    {Nil} \cup {Some(a) : a \in {"", "invalidip", "10.0.0.10", "10.0.1.10", "11.0.0.10",
                                 "10.0.0.256", "::1", "::ffff:10.0.0.10"}}

AllocationIDs == {Nil, Some(""), Some("eipalloc-222ghi789")}

Binding(name, address, allocationID) ==
    [Name |-> name, PrivateIPv4Address |-> address, AllocationID |-> allocationID]

Bindings ==
    {Binding(n, a, e) : n \in {"", "a", "b", "d"}, a \in Addresses, e \in AllocationIDs}

\* The bindings used in lists of several: one per kind of finding.
SomeBindings ==
    { Binding("a", Nil, Nil), Binding("", Some(""), Some("")),
      Binding("d", Some("11.0.0.10"), Nil), Binding("a", Some("11.0.0.10"), Some("eipalloc-222ghi789")) }

CCMConfigs ==
    [ccm : {Nil, Some("CloudControllerManagerConfig")},
     kcm : {Nil} \cup {Some([ExternalCloudVolumePlugin |-> p]) : p \in {"", "aws", "gce"}},
     cloudConfig : {Nil, Some([AWSEBSCSIDriver |-> Nil])}
                   \cup {Some([AWSEBSCSIDriver |-> Some([Enabled |-> e])]) :
                            e \in {Nil, Some(FALSE), Some(TRUE)}}]

TestSubnets == CHOOSE l \in ClusterSubnetLists : Len(l) = 3

\* Every security-group list on an otherwise valid load balancer.
ClustersGroups ==
    {Cluster(Some([LoadBalancer |-> Some(LoadBalancer(LoadBalancerClassNetwork,
                 LoadBalancerTypeInternal, g, Nil, "", <<>>))]),
             TestSubnets, Nil, Nil, Nil) : g \in GroupLists}

\* Every single binding under every class, type and cluster subnet list.
ClustersOneBinding ==
    {Cluster(Some([LoadBalancer |-> Some(LoadBalancer(cls, typ, <<>>, Nil, "", <<b>>))]),
             cs, Nil, Nil, Nil) :
        cls \in Classes, typ \in Types, b \in Bindings, cs \in ClusterSubnetLists}

\* Lists of bindings.
ClustersBindings ==
    {Cluster(Some([LoadBalancer |-> Some(LoadBalancer(cls, typ, <<>>, Nil, "", bs))]),
             TestSubnets, Nil, Nil, Nil) :
        cls \in {LoadBalancerClassClassic, LoadBalancerClassNetwork},
        typ \in {LoadBalancerTypePublic, LoadBalancerTypeInternal},
        bs \in SeqsUpTo(SomeBindings, MaxBindings)}

\* Every rule's input varied together, with and without API / load balancer.
APIs ==
    {Nil, Some([LoadBalancer |-> Nil])}
    \cup {Some([LoadBalancer |-> Some(LoadBalancer(cls, typ, g, p[1], p[2], bs))]) :
            cls \in {LoadBalancerClassClassic, LoadBalancerClassNetwork},
            typ \in {LoadBalancerTypePublic, LoadBalancerTypeInternal},
            g \in {<<>>, <<"--invalid">>},
            p \in {<<Nil, "">>, <<Some("ELBSecurityPolicy-2016-08"), "">>,
                   <<Some("ELBSecurityPolicy-2016-08"), "arn:aws:acm:cert">>},
            bs \in {<<>>, <<Binding("d", Some(""), Some(""))>>}}

ClustersMixed ==
    {Cluster(api, TestSubnets, x.ccm, x.kcm, x.cloudConfig) : api \in APIs, x \in CCMConfigs}

ClusterInputs == ClustersGroups \cup ClustersOneBinding \cup ClustersBindings \cup ClustersMixed

\* ---- instance groups ----
InstanceGroup(groups, machineType, spot, behavior, maxSize, mip, metadata) ==
    [Name |-> "test-nodes",
     Spec |-> [AdditionalSecurityGroups |-> groups, MachineType |-> machineType,
               SpotDurationInMinutes |-> spot, InstanceInterruptionBehavior |-> behavior,
               MaxSize |-> maxSize, MixedInstancesPolicy |-> mip,
               InstanceMetadata |-> metadata]]

MixedInstancesPolicy(instances, onDemandBase, onDemandAboveBase, strategy) ==
    [Instances |-> instances, OnDemandBase |-> onDemandBase,
     OnDemandAboveBase |-> onDemandAboveBase, SpotAllocationStrategy |-> strategy]

InstanceMetadata(tokens, hopLimit) ==
    [HTTPTokens |-> tokens, HTTPPutResponseHopLimit |-> hopLimit]

\* Candidate type names; the port of the tests knows the two real ones.
TypeNames == {"", "t2.micro", "t2.invalidType", "m5.large"}

MachineTypes == {Join(l, ",") : l \in SeqsUpTo(TypeNames, MaxCandidates)}

Clouds == {Nil, Some({}), Some({"t2.micro", "m5.large"})}

IGsGroups ==
    {InstanceGroup(g, "", Nil, Nil, Nil, Nil, Nil) : g \in GroupLists}

HopLimits == {Nil} \cup {Some(n) : n \in -2..MaxHopLimit}

Tokens == {Nil} \cup {Some(t) : t \in {"optional", "required", "abc", ""}}

IGsMetadata ==
    {InstanceGroup(<<>>, "", Nil, Nil, Nil, Nil, Some(InstanceMetadata(t, h))) :
        t \in Tokens, h \in HopLimits}

IGsSpot ==
    {InstanceGroup(<<>>, "", Some(n), b, Nil, Nil, Nil) :
        n \in {-60, 0, 55, 60, 120, 125, 180, 240, 300, 360, 380},
        b \in {Nil} \cup {Some(x) : x \in {"hibernate", "stop", "terminate", "invalidValue", ""}}}

SomePolicies ==
    { Nil,
      Some(MixedInstancesPolicy(<<"t2.micro", "t2.invalidType,m5.large,bogus">>,
                                Some(-1), Some(101), Some("cheapest"))),
      Some(MixedInstancesPolicy(<<"bogus">>, Some(1), Some(-1), Nil)) }

IGsMixed ==
    {InstanceGroup(g, m, s, b, Nil, p, md) :
        g \in {<<>>, <<" ", "">>},
        m \in MachineTypes,
        s \in {Nil, Some(55)},
        b \in {Nil, Some("invalidValue")},
        p \in SomePolicies,
        md \in {Nil, Some(InstanceMetadata(Some("abc"), Some(0)))}}

MaxOnDemandBase == 3

Sizes == {Nil} \cup {Some(n) : n \in -2..MaxOnDemandBase}

\* Every onDemandBase against every maximum size, set or not, with and
\* without a finding on onDemandAboveBase next to it.
IGsOnDemand ==
    {InstanceGroup(<<>>, "", Nil, Nil, maxSize,
                   Some(MixedInstancesPolicy(<<>>, base, above, Nil)), Nil) :
        maxSize \in Sizes, base \in Sizes, above \in {Nil, Some(101)}}

IGInputs == IGsGroups \cup IGsMetadata \cup IGsSpot \cup IGsMixed \cup IGsOnDemand

EmptyCluster == Cluster(Nil, <<>>, Nil, Nil, Nil)

EmptyIG == InstanceGroup(<<>>, "", Nil, Nil, Nil, Nil, Nil)

(***************************************************************************)
(* Specification                                                           *)
(***************************************************************************)
Init ==
    /\ pc = "enter"
    /\ allErrs = <<>>
    /\ queries = <<>>
    /\ \/ /\ fn = "awsValidateCluster"
          /\ c \in ClusterInputs
          /\ ig = EmptyIG
          /\ cloud = Nil
       \/ /\ fn = "awsValidateInstanceGroup"
          /\ c = EmptyCluster
          /\ ig \in IGInputs
          /\ cloud \in Clouds

Next ==
    \/ ClusterEnter
    \/ ClusterSecurityGroups
    \/ ClusterSSLPolicy
    \/ ClusterLoadBalancerSubnets
    \/ ClusterExternalCCM
    \/ IGSecurityGroups
    \/ IGMachineType
    \/ IGSpotDuration
    \/ IGInterruptionBehavior
    \/ IGMixedInstancesPolicy
    \/ IGInstanceMetadata

Spec == Init /\ [][Next]_vars

(***************************************************************************)
(* Properties                                                              *)
(***************************************************************************)
ErrsAt(errs, path) == SelectSeq(errs, LAMBDA e : e.field = path)

HasErr(errs, type, path) == \E k \in 1..Len(errs) : errs[k].type = type /\ errs[k].field = path

HasErrDetail(errs, type, path, detail) ==
    \E k \in 1..Len(errs) :
        errs[k].type = type /\ errs[k].field = path /\ errs[k].detail = detail

CountErr(errs, type, path) ==
    Cardinality({k \in 1..Len(errs) : errs[k].type = type /\ errs[k].field = path})

\* awsValidateCluster has executed awsValidateLoadBalancerSubnets.
SubnetsChecked ==
    fn = "awsValidateCluster" /\ HasLoadBalancer(c) /\ pc \in {"externalCCM", "return"}

SubnetsPath == <<"spec", "api", "loadBalancer", "subnets">>

\* The path subnets[i].<name> of the (1-based) k-th binding.
BindingPath(k, name) == <<"spec", "api", "loadBalancer", "subnets", "[" \o ToString(k - 1) \o "]", name>>

BindingIndexes == 1..Len(LoadBalancerOf(c).Subnets)

BindingAt(k) == LoadBalancerOf(c).Subnets[k]

NotValidIPv4Detail == "privateIPv4Address is not a valid IPv4 address"

NotInCIDRDetail == "privateIPv4Address is not part of the subnet CIDR"

\* The address parses to an IPv4 address.
ValidIPv4(addr) == ParseIP(addr) # Nil /\ To4(ParseIP(addr)) # Nil

IsNetworkInternal(lb) == lb.Class = "Network" /\ lb.Type = "Internal"

IsNetworkNotInternal(lb) == lb.Class = "Network" /\ lb.Type # "Internal"

\* C1: for every binding whose privateIPv4Address is present, an empty
\* address yields a Required error and no Invalid error at
\* subnets[i].privateIPv4Address, and the 'not a valid IPv4 address' Invalid
\* error is emitted only for a non-empty address that is not a valid IPv4
\* literal.  The code parses the empty address too and reports it as Invalid
\* as well.
C1_EmptyAddressOnlyRequired ==
    SubnetsChecked =>
        \A k \in BindingIndexes :
            BindingAt(k).PrivateIPv4Address # Nil =>
                LET addr == Deref(BindingAt(k).PrivateIPv4Address)
                    path == BindingPath(k, "privateIPv4Address")
                IN  /\ addr = "" =>
                          /\ HasErr(allErrs, "Required value", path)
                          /\ ~HasErr(allErrs, "Invalid value", path)
                    /\ HasErrDetail(allErrs, "Invalid value", path, NotValidIPv4Detail) =>
                          addr # "" /\ ~ValidIPv4(addr)

DeclaredNames == {c.Spec.Subnets[j].Name : j \in 1..Len(c.Spec.Subnets)}

\* C8: an empty binding name yields exactly one Required and no NotFound at
\* subnets[i].name; a non-empty name no cluster subnet has yields exactly one
\* NotFound; a declared name yields no error there.  Whatever the name, the
\* address and allocationID checks of the binding and of later bindings run:
\* an empty address or allocationID is Required, an unparsable address is
\* Invalid.
C8_NameCheck ==
    SubnetsChecked =>
        \A k \in BindingIndexes :
            LET b == BindingAt(k)
                atName == ErrsAt(allErrs, BindingPath(k, "name"))
            IN  /\ b.Name = "" =>
                       Len(atName) = 1 /\ atName[1].type = "Required value"
                /\ (b.Name # "" /\ b.Name \notin DeclaredNames) =>
                       Len(atName) = 1 /\ atName[1].type = "Not found"
                /\ (b.Name # "" /\ b.Name \in DeclaredNames) => atName = <<>>
                /\ b.PrivateIPv4Address = Some("") =>
                       HasErr(allErrs, "Required value", BindingPath(k, "privateIPv4Address"))
                /\ (b.PrivateIPv4Address # Nil /\ ~ValidIPv4(Deref(b.PrivateIPv4Address))) =>
                       HasErrDetail(allErrs, "Invalid value",
                           BindingPath(k, "privateIPv4Address"), NotValidIPv4Detail)
                /\ b.AllocationID = Some("") =>
                       HasErr(allErrs, "Required value", BindingPath(k, "allocationID"))

\* C8's case: a first binding without a name whose address and allocationID
\* are still reported, followed by a binding whose name is not found.
C8_Witness ==
    /\ SubnetsChecked
    /\ Len(LoadBalancerOf(c).Subnets) >= 2
    /\ BindingAt(1).Name = ""
    /\ HasErr(allErrs, "Required value", BindingPath(1, "name"))
    /\ HasErr(allErrs, "Required value", BindingPath(1, "privateIPv4Address"))
    /\ HasErr(allErrs, "Required value", BindingPath(1, "allocationID"))
    /\ BindingAt(2).Name \notin DeclaredNames
    /\ HasErr(allErrs, "Not found", BindingPath(2, "name"))

\* The declaration-order position of the first cluster subnet named name, or
\* 0.
FirstDeclared(name) ==
    IF name \in DeclaredNames
    THEN CHOOSE j \in 1..Len(c.Spec.Subnets) :
             /\ c.Spec.Subnets[j].Name = name
             /\ \A h \in 1..(j - 1) : c.Spec.Subnets[h].Name # name
    ELSE 0

\* The IPv4 address with bytes b as a number.
AddrNumber(b) == ((b[1] * 256 + b[2]) * 256 + b[3]) * 256 + b[4]

\* The CIDR string denotes an IPv4 block that does not hold the address: the
\* two differ in the leading `ones` bits.  A CIDR that is no IPv4 block holds
\* no IPv4 address; one that does not parse denotes nothing.
OutsideCIDR(addr, cidr) ==
    LET net == ParseCIDR(cidr)
        slash == IndexFrom(cidr, "/", 1)
        ones == dtoi(SubSeq(cidr, slash + 1, Len(cidr))).n
        base == parseIPv4(SubSeq(cidr, 1, slash - 1))
    IN  /\ net # Nil
        /\ \/ base = Nil
           \/ AddrNumber(To4(ParseIP(addr))) \div Pow2(32 - ones)
                  # AddrNumber(To4(base)) \div Pow2(32 - ones)

\* C10: the 'not part of the subnet CIDR' error of binding i is emitted iff
\* the address is a valid IPv4 address, the binding's name resolves to a
\* cluster subnet, and the address lies outside the CIDR of the first cluster
\* subnet of that name; with an empty or unknown name it is never emitted.
C10_CIDRContainment ==
    SubnetsChecked =>
        \A k \in BindingIndexes :
            LET b == BindingAt(k)
                first == FirstDeclared(b.Name)
            IN  HasErrDetail(allErrs, "Invalid value",
                    BindingPath(k, "privateIPv4Address"), NotInCIDRDetail)
                <=> /\ b.PrivateIPv4Address # Nil
                    /\ ValidIPv4(Deref(b.PrivateIPv4Address))
                    /\ b.Name # ""
                    /\ first # 0
                    /\ OutsideCIDR(Deref(b.PrivateIPv4Address), c.Spec.Subnets[first].CIDR)

\* C10's case: the name is declared twice, the address lies inside the
\* second declaration's CIDR and outside the first's, and the error is
\* emitted.
C10_Witness ==
    /\ SubnetsChecked
    /\ \E k \in BindingIndexes :
           /\ BindingAt(k).Name = "a"
           /\ BindingAt(k).PrivateIPv4Address = Some("10.0.0.10")
           /\ Len(c.Spec.Subnets) >= 2
           /\ c.Spec.Subnets[1] = ClusterSubnet("a", "10.0.1.0/24")
           /\ c.Spec.Subnets[2] = ClusterSubnet("a", "10.0.0.0/24")
           /\ HasErrDetail(allErrs, "Invalid value",
                  BindingPath(k, "privateIPv4Address"), NotInCIDRDetail)

\* Every character of s is white space.
Blank(s) == \A k \in 1..Len(s) : IsSpace(CharAt(s, k))

StartsWithSg(s) ==
    Len(s) >= 3 /\ CharAt(s, 1) = "s" /\ CharAt(s, 2) = "g" /\ CharAt(s, 3) = "-"

Kind(type, path) == [type |-> type, field |-> path]

Kinds(errs) == [k \in 1..Len(errs) |-> Kind(errs[k].type, errs[k].field)]

\* What the claim expects of entries i.. of groups: a Duplicate for an entry
\* equal to an earlier one, then one Invalid for a blank or wrongly prefixed
\* one.
RECURSIVE ExpectedGroupKinds(_, _, _)
ExpectedGroupKinds(path, groups, i) ==
    IF i > Len(groups) THEN <<>>
    ELSE (IF \E j \in 1..(i - 1) : groups[j] = groups[i]
          THEN <<Kind("Duplicate value", Append(path, "[" \o ToString(i - 1) \o "]"))>>
          ELSE <<>>)
         \o (IF Blank(groups[i]) \/ ~StartsWithSg(groups[i])
             THEN <<Kind("Invalid value", Append(path, "[" \o ToString(i - 1) \o "]"))>>
             ELSE <<>>)
         \o ExpectedGroupKinds(path, groups, i + 1)

IGGroupsPath == <<"spec", "additionalSecurityGroups">>

LBGroupsPath == <<"spec", "api", "loadBalancer", "additionalSecurityGroups">>

\* C3: awsValidateAdditionalSecurityGroups returns exactly, in index order,
\* for entry i a Duplicate iff it equals an earlier entry, then exactly one
\* Invalid iff it is blank or lacks the "sg-" prefix; a blank entry stops
\* nothing after it.  (Checked right after the rule ran, for both callers.)
C3_SecurityGroupErrors ==
    /\ (fn = "awsValidateInstanceGroup" /\ pc = "machineType") =>
           Kinds(allErrs) = ExpectedGroupKinds(IGGroupsPath, ig.Spec.AdditionalSecurityGroups, 1)
    /\ (fn = "awsValidateCluster" /\ pc = "sslPolicy") =>
           Kinds(allErrs) =
               ExpectedGroupKinds(LBGroupsPath, LoadBalancerOf(c).AdditionalSecurityGroups, 1)

\* C3's case: the list <<" ", "">> gives Invalid at index 0 then at index 1.
C3_Witness ==
    /\ fn = "awsValidateInstanceGroup" /\ pc = "machineType"
    /\ ig.Spec.AdditionalSecurityGroups = <<" ", "">>
    /\ Kinds(allErrs) = <<Kind("Invalid value", <<"spec", "additionalSecurityGroups", "[0]">>),
                          Kind("Invalid value", <<"spec", "additionalSecurityGroups", "[1]">>)>>

CCMPath == <<"spec", "externalCloudControllerManager">>

\* An external controller manager is declared and neither integration is.
LacksIntegration(spec) ==
    /\ spec.ExternalCloudControllerManager # Nil
    /\ ~(spec.KubeControllerManager # Nil
         /\ spec.KubeControllerManager[1].ExternalCloudVolumePlugin = "aws")
    /\ ~(/\ spec.CloudConfig # Nil
         /\ spec.CloudConfig[1].AWSEBSCSIDriver # Nil
         /\ spec.CloudConfig[1].AWSEBSCSIDriver[1].Enabled = <<TRUE>>)

\* C4: awsValidateCluster ends, for every cluster (with or without an API /
\* load-balancer section), with exactly one Forbidden error at
\* spec.externalCloudControllerManager, as its last error, iff an external
\* controller manager is declared, the external-volume-plugin is not "aws"
\* (or there is no kube-controller-manager config) and the CSI driver is not
\* enabled; otherwise with no error at that path.
C4_ExternalCCM ==
    (fn = "awsValidateCluster" /\ pc = "return") =>
        IF LacksIntegration(c.Spec)
        THEN /\ Kinds(ErrsAt(allErrs, CCMPath)) = <<Kind("Forbidden", CCMPath)>>
             /\ allErrs[Len(allErrs)].field = CCMPath
        ELSE ErrsAt(allErrs, CCMPath) = <<>>

\* C4's case: a cluster without API section, with a kube-controller-manager
\* config naming another plugin and a CSI driver that is present but not
\* enabled, gets the error.
C4_Witness ==
    /\ fn = "awsValidateCluster" /\ pc = "return"
    /\ c.Spec.API = Nil
    /\ c.Spec.ExternalCloudControllerManager # Nil
    /\ c.Spec.KubeControllerManager = Some([ExternalCloudVolumePlugin |-> "gce"])
    /\ c.Spec.CloudConfig = Some([AWSEBSCSIDriver |-> Some([Enabled |-> Some(FALSE)])])
    /\ Kinds(allErrs) = <<Kind("Forbidden", CCMPath)>>

IsIG == fn = "awsValidateInstanceGroup"

MachineTypePath == <<"test-nodes", "spec", "machineType">>

SpotPath == <<"test-nodes", "spec", "spotDurationInMinutes">>

BehaviorPath == <<"test-nodes", "spec", "instanceInterruptionBehavior">>

PolicyPath == <<"spec", "mixedInstancesPolicy">>

MetadataPath == <<"spec", "instanceMetadata">>

MachineTypeDetail == "machine type specified is invalid"

HasPathPrefix(path, prefix) ==
    Len(path) >= Len(prefix) /\ SubSeq(path, 1, Len(prefix)) = prefix

ErrsUnder(errs, prefix) == SelectSeq(errs, LAMBDA e : HasPathPrefix(e.field, prefix))

\* The comma-separated candidates the machine type was written from.
CandidatesOf(machineType) ==
    CHOOSE l \in SeqsUpTo(TypeNames, MaxCandidates) :
        Len(l) >= 1 /\ Join(l, ",") = machineType

\* One Invalid at path per candidate the port does not resolve, in order.
ExpectedTypeErrors(path, candidates, port) ==
    LET failing == SelectSeq(candidates, LAMBDA t : t \notin port)
    IN  [k \in 1..Len(failing) |-> Invalid(path, StrV(failing[k]), MachineTypeDetail)]

PolicyErrors(g, cl) ==
    IF g.Spec.MixedInstancesPolicy = Nil THEN <<>>
    ELSE awsValidateMixedInstancesPolicy(PolicyPath, g.Spec.MixedInstancesPolicy[1], g, cl).errs

MetadataErrors(g) ==
    IF g.Spec.InstanceMetadata = Nil THEN <<>>
    ELSE awsValidateInstanceMetadata(MetadataPath, g.Spec.InstanceMetadata[1])

\* C5: with a port and a non-empty machine type, awsValidateInstanceType
\* looks every comma-separated candidate up once, in order, and emits one
\* Invalid per failed lookup, all at the one machineType path; a failed lookup
\* aborts nothing: the later candidates are looked up and the later rules of
\* awsValidateInstanceGroup report what they find.
C5_InstanceTypeLookups ==
    (IsIG /\ cloud # Nil /\ ig.Spec.MachineType # "") =>
        LET candidates == CandidatesOf(ig.Spec.MachineType)
        IN  /\ pc \in {"spotDuration", "interruptionBehavior", "mixedInstancesPolicy"} =>
                   /\ queries = candidates
                   /\ ErrsAt(allErrs, MachineTypePath)
                          = ExpectedTypeErrors(MachineTypePath, candidates, cloud[1])
            /\ pc = "return" =>
                   /\ SubSeq(queries, 1, Len(candidates)) = candidates
                   /\ ErrsAt(allErrs, MachineTypePath)
                          = ExpectedTypeErrors(MachineTypePath, candidates, cloud[1])
                   /\ ErrsAt(allErrs, SpotPath) = awsValidateSpotDurationInMinute(SpotPath, ig)
                   /\ ErrsAt(allErrs, BehaviorPath)
                          = awsValidateInstanceInterruptionBehavior(BehaviorPath, ig)
                   /\ ErrsUnder(allErrs, PolicyPath) = PolicyErrors(ig, cloud)
                   /\ ErrsUnder(allErrs, MetadataPath) = MetadataErrors(ig)

\* C5's case: two candidates, neither resolved: two Invalid errors at the
\* machineType path, and the spot-duration error after them.
C5_Witness ==
    /\ IsIG /\ pc = "return" /\ cloud # Nil
    /\ Len(Split(ig.Spec.MachineType, ",")) = 2
    /\ Len(ErrsAt(allErrs, MachineTypePath)) = 2
    /\ HasErr(allErrs, "Unsupported value", SpotPath)

IsMachineTypeError(e) == e.detail = MachineTypeDetail

\* C6: with no port, awsValidateInstanceGroup makes no lookup and emits no
\* machine-type error, for spec.machineType or for any
\* mixedInstancesPolicy.instances entry; and, port or no port, the errors of
\* the local rules are those the rules give without a port.
C6_NoPortSkipsTypeChecks ==
    (IsIG /\ pc = "return") =>
        LET local == SelectSeq(allErrs, LAMBDA e : ~IsMachineTypeError(e))
        IN  /\ local = awsValidateAdditionalSecurityGroups(IGGroupsPath,
                           ig.Spec.AdditionalSecurityGroups)
                       \o awsValidateSpotDurationInMinute(SpotPath, ig)
                       \o awsValidateInstanceInterruptionBehavior(BehaviorPath, ig)
                       \o PolicyErrors(ig, Nil)
                       \o MetadataErrors(ig)
            /\ cloud = Nil => (allErrs = local /\ queries = <<>>)

\* C6's case: no port, a machine type and policy instances no port would
\* resolve, and local findings all the same.
C6_Witness ==
    /\ IsIG /\ pc = "return" /\ cloud = Nil
    /\ ig.Spec.MachineType = "t2.invalidType"
    /\ ig.Spec.MixedInstancesPolicy # Nil
    /\ Len(ig.Spec.MixedInstancesPolicy[1].Instances) > 0
    /\ HasErr(allErrs, "Invalid value", <<"spec", "mixedInstancesPolicy", "onDemandBase">>)
    /\ HasErr(allErrs, "Unsupported value", SpotPath)

\* C7: the list an entry point returns is the concatenation of its rules'
\* lists in invocation order: security groups, machine type, spot duration,
\* interruption behavior, mixed-instances policy and instance metadata (the
\* last two if present) for an instance group; load-balancer security
\* groups, SSL policy and load-balancer subnets (if the API load balancer is
\* present), then external cloud-controller-manager for a cluster.
C7_Concatenation ==
    /\ (IsIG /\ pc = "return") =>
           allErrs = awsValidateAdditionalSecurityGroups(IGGroupsPath,
                         ig.Spec.AdditionalSecurityGroups)
                     \o awsValidateInstanceType(MachineTypePath, ig.Spec.MachineType, cloud).errs
                     \o awsValidateSpotDurationInMinute(SpotPath, ig)
                     \o awsValidateInstanceInterruptionBehavior(BehaviorPath, ig)
                     \o PolicyErrors(ig, cloud)
                     \o MetadataErrors(ig)
    /\ (fn = "awsValidateCluster" /\ pc = "return") =>
           allErrs = (IF c.Spec.API # Nil /\ c.Spec.API[1].LoadBalancer # Nil
                      THEN awsValidateAdditionalSecurityGroups(LBGroupsPath,
                               c.Spec.API[1].LoadBalancer[1].AdditionalSecurityGroups)
                           \o awsValidateSSLPolicy(<<"spec", "api", "loadBalancer", "sslPolicy">>,
                                  c.Spec.API[1].LoadBalancer[1])
                           \o awsValidateLoadBalancerSubnets(SubnetsPath, c.Spec)
                      ELSE <<>>)
                     \o awsValidateExternalCloudControllerManager(c.Spec)

\* C7's case: an instance group on which all six rules find something.
C7_Witness ==
    /\ IsIG /\ pc = "return"
    /\ ErrsUnder(allErrs, IGGroupsPath) # <<>>
    /\ ErrsAt(allErrs, MachineTypePath) # <<>>
    /\ ErrsAt(allErrs, SpotPath) # <<>>
    /\ ErrsAt(allErrs, BehaviorPath) # <<>>
    /\ ErrsUnder(allErrs, PolicyPath) # <<>>
    /\ ErrsUnder(allErrs, MetadataPath) # <<>>

HopLimitPath == <<"spec", "instanceMetadata", "httpPutResponseHopLimit">>

TokensPath == <<"spec", "instanceMetadata", "httpTokens">>

\* C9: awsValidateInstanceMetadata emits an Invalid error at
\* httpPutResponseHopLimit iff the hop limit is present and outside [1,64],
\* and an Unsupported error at httpTokens iff httpTokens is present and
\* neither "optional" nor "required"; each field's errors depend on that
\* field alone.
C9_InstanceMetadata ==
    (IsIG /\ pc = "return" /\ ig.Spec.InstanceMetadata # Nil) =>
        LET md == ig.Spec.InstanceMetadata[1]
            hop == md.HTTPPutResponseHopLimit
            tok == md.HTTPTokens
        IN  /\ Kinds(ErrsAt(allErrs, HopLimitPath)) =
                   IF hop # Nil /\ (hop[1] < 1 \/ hop[1] > 64)
                   THEN <<Kind("Invalid value", HopLimitPath)>> ELSE <<>>
            /\ Kinds(ErrsAt(allErrs, TokensPath)) =
                   IF tok # Nil /\ tok[1] \notin {"optional", "required"}
                   THEN <<Kind("Unsupported value", TokensPath)>> ELSE <<>>

\* C9's case: a hop limit of 65 with valid tokens gives the one Invalid
\* error.
C9_Witness ==
    /\ IsIG /\ pc = "return"
    /\ ig.Spec.InstanceMetadata = Some(InstanceMetadata(Some("required"), Some(65)))
    /\ Kinds(allErrs) = <<Kind("Invalid value", HopLimitPath)>>

OnDemandBasePath == <<"spec", "mixedInstancesPolicy", "onDemandBase">>

\* The maximum size of the instance group, an unset one counting as 0.
MaxSizeOrZero(g) == IF g.Spec.MaxSize = <<>> THEN 0 ELSE g.Spec.MaxSize[1]

\* C11: with onDemandBase present, an Invalid error at onDemandBase is
\* emitted iff onDemandBase < 0 or onDemandBase > the maximum size, an unset
\* maximum size counting as 0 (so without one every onDemandBase >= 1 is
\* rejected and 0 is accepted); a negative onDemandBase gives exactly one
\* error, the lower-bound one, whenever the maximum size is >= 0.  No error
\* at onDemandBase is of another kind, and an absent onDemandBase gives none.
C11_OnDemandBase ==
    (IsIG /\ pc = "return" /\ ig.Spec.MixedInstancesPolicy # Nil) =>
        LET base == ig.Spec.MixedInstancesPolicy[1].OnDemandBase
            max == MaxSizeOrZero(ig)
            at == ErrsAt(allErrs, OnDemandBasePath)
        IN  /\ \A k \in 1..Len(at) : at[k].type = "Invalid value"
            /\ base = Nil => at = <<>>
            /\ base # Nil =>
                   /\ at # <<>> <=> (base[1] < 0 \/ base[1] > max)
                   /\ (base[1] < 0 /\ max >= 0) =>
                          Len(at) = 1 /\ at[1].detail = "cannot be less than zero"
                   /\ ig.Spec.MaxSize = Nil => (at = <<>> <=> base[1] = 0)

\* C11's case: no maximum size and an onDemandBase of 1, rejected as greater
\* than the maximum size.
C11_Witness ==
    /\ IsIG /\ pc = "return"
    /\ ig.Spec.MaxSize = Nil
    /\ ig.Spec.MixedInstancesPolicy # Nil
    /\ ig.Spec.MixedInstancesPolicy[1].OnDemandBase = Some(1)
    /\ Len(ErrsAt(allErrs, OnDemandBasePath)) = 1
    /\ ErrsAt(allErrs, OnDemandBasePath)[1].detail = "cannot be greater than max size"

\* The Forbidden errors of the (1-based) k-th binding, in the order emitted.
ForbiddenOfBinding(k) ==
    Kinds(SelectSeq(allErrs,
        LAMBDA e : e.type = "Forbidden"
                   /\ e.field \in {BindingPath(k, "privateIPv4Address"),
                                   BindingPath(k, "allocationID")}))

\* C12: a binding that carries both a privateIPv4Address and an allocationID
\* always yields at least one Forbidden error, and yields two, the
\* privateIPv4Address one first and the allocationID one second, exactly
\* when the class is not network.
C12_BothFieldsForbidden ==
    SubnetsChecked =>
        \A k \in BindingIndexes :
            (BindingAt(k).PrivateIPv4Address # Nil /\ BindingAt(k).AllocationID # Nil) =>
                LET f == ForbiddenOfBinding(k)
                IN  /\ Len(f) >= 1
                    /\ Len(f) = 2 <=> LoadBalancerOf(c).Class # "Network"
                    /\ Len(f) = 2 =>
                           f = <<Kind("Forbidden", BindingPath(k, "privateIPv4Address")),
                                 Kind("Forbidden", BindingPath(k, "allocationID"))>>

\* C12's case: a binding with both fields on a classic internal load balancer
\* gets the two Forbidden errors in that order.
C12_Witness ==
    /\ SubnetsChecked
    /\ LoadBalancerOf(c).Class = "Classic" /\ LoadBalancerOf(c).Type = "Internal"
    /\ \E k \in BindingIndexes :
           /\ BindingAt(k).PrivateIPv4Address = Some("10.0.0.10")
           /\ BindingAt(k).AllocationID = Some("eipalloc-222ghi789")
           /\ ForbiddenOfBinding(k) =
                  <<Kind("Forbidden", BindingPath(k, "privateIPv4Address")),
                    Kind("Forbidden", BindingPath(k, "allocationID"))>>

====
